---- MODULE Spec2Model ----
(***************************************************************************)
(* Voice -> transcript -> image prompt -> image pipeline.                  *)
(*                                                                         *)
(* llm_pipeline.py holds the three stage functions and the client factory; *)
(* app.py holds run_pipeline, which sequences them over the Streamlit      *)
(* session state.  The provider (OpenAI) is the environment: every         *)
(* response of a provider call is a nondeterministic input.                *)
(*                                                                         *)
(* Representation of Python values:                                        *)
(*   - text whose content the code inspects (transcripts, prompts,         *)
(*     completions) is a sequence of one-character strings;                *)
(*   - identifiers and messages that the code only passes around (model    *)
(*     ids, sizes, keys, exception messages) are TLA+ strings;             *)
(*   - Optional[x] is None == <<>> or Some(x) == <<x>>;                    *)
(*   - bytes are sequences of integers in 0..255.                          *)
(***************************************************************************)
EXTENDS Integers, Sequences, FiniteSets, TLC

\* Longest text (in characters) a provider response or a caller's argument holds.
MaxLen == 2

None == <<>>
Some(x) == <<x>>

\* Characters of the modelled texts: a whitespace character and a letter.
Chars == {" ", "a"}
Whitespace == {" ", "\n", "\t"}
Strings == UNION {[1..n -> Chars] : n \in 0..MaxLen}

(***************************************************************************)
(* str.strip(): leading and trailing whitespace removed.                   *)
(***************************************************************************)
RECURSIVE lstrip(_)
lstrip(s) ==
  IF s # <<>> /\ Head(s) \in Whitespace THEN lstrip(Tail(s)) ELSE s

RECURSIVE rstrip(_)
rstrip(s) ==
  IF s # <<>> /\ s[Len(s)] \in Whitespace
  THEN rstrip(SubSeq(s, 1, Len(s) - 1))
  ELSE s

strip(s) == rstrip(lstrip(s))

(***************************************************************************)
(* Exceptions, and the outcome of a function call: what it returned or     *)
(* raised, and the provider requests it made, in order.                    *)
(***************************************************************************)
Exc(type, msg) == [type |-> type, msg |-> msg]
NoExc == Exc("", "")

Returned(value, requests) ==
  [kind |-> "return", value |-> value, exc |-> NoExc, calls |-> requests]
Raised(exc, requests) ==
  [kind |-> "raise", value |-> None, exc |-> exc, calls |-> requests]

\* str(exc), as run_pipeline's handler takes it: the message without the type.
str(exc) == exc.msg

MissingKeyMsg ==
  "OpenAI API key is required. Please provide it in the app settings or set OPENAI_API_KEY environment variable."
EmptyTranscriptionMsg ==
  "Transcription returned empty text. The audio file may be too quiet, corrupted, or contain no speech. Please try with a different audio file."
EmptyTranscriptMsg ==
  "Transcript is empty. Cannot generate image prompt from empty transcript."
EmptyPromptMsg ==
  "Image prompt is empty. Cannot generate image from empty prompt. Please ensure the transcript was properly transcribed and the LLM generated a valid prompt."
NoAudioMsg == "Please upload an audio file first."

(***************************************************************************)
(* The environment: the ambient credential and the provider.               *)
(***************************************************************************)
VARIABLES
  env_key,         \* os.getenv("OPENAI_API_KEY"): None or Some(key)
  error_message,   \* st.session_state.error_message
  transcript,      \* st.session_state.transcript
  image_prompt,    \* st.session_state.image_prompt
  image_bytes,     \* st.session_state.image_bytes: None or Some(bytes)
  openai_api_key,  \* st.session_state.openai_api_key
  models_used,     \* st.session_state.models_used
  image_size,      \* st.session_state.image_size
  pc,              \* where run_pipeline (or a direct caller of a stage) is
  locals,          \* run_pipeline's local variables while it runs
  calls,           \* history: the provider operations called in this run, in order
  invoked,         \* history: the stage functions invoked in this run, in order
  last_resp,       \* history: the provider's answer to the latest call of this run
  returned,        \* history: what the stage functions returned in this run
  stale,           \* history: this run's entry found an earlier run's outcome stored
  inp,             \* the call observed: a stage function and its arguments, or run_pipeline and whether audio was uploaded
  ret              \* a direct call of a stage function: its outcome

session == <<error_message, transcript, image_prompt, image_bytes,
             openai_api_key, models_used, image_size>>
run == <<locals, calls, invoked, last_resp, returned, stale>>
vars == <<env_key, session, pc, run, inp, ret>>

EnvKeys == {None, Some(""), Some("sk-env")}
ApiKeyInputs == {"", "sk-user"}
ApiKeyArgs == {None, Some(""), Some("sk-user")}
TranscriptionModels == {"whisper-1", "gpt-4o-transcribe"}
LLMModels == {"gpt-5-nano", "gpt-4o-mini"}
ImageModels == {"gpt-image-1", "dall-e-3"}
ImageSizes == {"512x512", "768x768", "1024x1024"}

\* What a provider call raises: the client library's errors, all with a message.
ProviderErrors ==
  {Exc("APIConnectionError", "Connection error."),
   Exc("RateLimitError", "Rate limit reached.")}

\* client.audio.transcriptions.create(...): raises, or returns an object with .text
TranscriptionResponses ==
  {[kind |-> "raise", exc |-> e, text |-> <<>>] : e \in ProviderErrors}
    \cup {[kind |-> "ok", exc |-> NoExc, text |-> s] : s \in Strings}

\* client.chat.completions.create(...): raises, or returns an object with
\* .choices, a list that is empty or holds a message whose content is None or text.
ChatResponses ==
  {[kind |-> "raise", exc |-> e, choices |-> <<>>] : e \in ProviderErrors}
    \cup {[kind |-> "ok", exc |-> NoExc, choices |-> c] :
            c \in {<<>>, <<None>>} \cup {<<Some(s)>> : s \in Strings}}

\* Base64 payloads a provider may send: of no byte, of the byte "A" and of the
\* bytes "AB/", and one with its padding cut off.
B64Payloads ==
  {<<>>,
   <<"Q", "Q", "=", "=">>,
   <<"Q", "U", "I", "v">>,
   <<"Q", "Q">>}

\* client.images.generate(...): raises, or returns an object with .data[0].b64_json
\* (None when the provider answered with a URL instead); model is the model
\* identifier the provider says it used.
ImageResponses ==
  {[kind |-> "raise", exc |-> e, b64_json |-> None, model |-> ""] :
     e \in ProviderErrors}
    \cup {[kind |-> "ok", exc |-> NoExc, b64_json |-> b, model |-> m] :
            b \in {None} \cup {Some(p) : p \in B64Payloads}, m \in ImageModels}

NoResp == [kind |-> "none"]

\* The answers to draw for the fallback request: none is received when the
\* completion r1 holds text that is not blank, for no fallback request is made.
FallbackResponses(r1) ==
  IF r1.kind = "ok" /\ r1.choices # <<>> /\ r1.choices[1] # None
     /\ \E i \in 1..Len(r1.choices[1][1]) : r1.choices[1][1][i] \notin Whitespace
  THEN {r1}
  ELSE ChatResponses

(***************************************************************************)
(* _get_openai_client                                                      *)
(***************************************************************************)
\* Python truthiness of an Optional[str] of identifiers.
Truthy(o) == o # None /\ o[1] # ""

OpenAI(api_key) == [api_key |-> api_key]

get_client_never_raising(api_key) ==
  IF Truthy(api_key) THEN Returned(OpenAI(api_key[1]), <<>>)
  ELSE Returned(OpenAI(IF env_key = None THEN "" ELSE env_key[1]), <<>>)

get_client_preferring_env(api_key) ==
  IF Truthy(env_key) THEN Returned(OpenAI(env_key[1]), <<>>)
  ELSE IF ~Truthy(api_key)
       THEN Raised(Exc("RuntimeError", MissingKeyMsg), <<>>)
       ELSE Returned(OpenAI(api_key[1]), <<>>)

_get_openai_client(api_key) ==
  IF Truthy(api_key) THEN Returned(OpenAI(api_key[1]), <<>>)
  ELSE IF ~Truthy(env_key)
       THEN Raised(Exc("RuntimeError", MissingKeyMsg), <<>>)
       ELSE Returned(OpenAI(env_key[1]), <<>>)

(***************************************************************************)
(* Provider requests.  temperature is in tenths.                           *)
(***************************************************************************)
TranscriptionRequest(client, model, file) ==
  [api |-> "audio.transcriptions.create", key |-> client.api_key,
   model |-> model, file |-> file.name, response_format |-> "json",
   temperature |-> 0]

ChatRequest(client, model, system, user, text, temperature, max_tokens) ==
  [api |-> "chat.completions.create", key |-> client.api_key,
   model |-> model, system |-> system, user |-> user, text |-> text,
   temperature |-> temperature, max_tokens |-> max_tokens]

ImageRequest(client, model, prompt, size) ==
  [api |-> "images.generate", key |-> client.api_key,
   model |-> model, prompt |-> prompt, size |-> size, n |-> 1]

(***************************************************************************)
(* transcribe_audio                                                        *)
(***************************************************************************)
transcribe_audio_unchecked(audio_file, model, api_key, resp) ==
  LET client == _get_openai_client(api_key) IN
  IF client.kind = "raise" THEN client
  ELSE LET req == TranscriptionRequest(client.value, model, audio_file) IN
       IF resp.kind = "raise" THEN Raised(resp.exc, <<req>>)
       ELSE Returned(strip(resp.text), <<req>>)

transcribe_audio_untrimmed(audio_file, model, api_key, resp) ==
  LET client == _get_openai_client(api_key) IN
  IF client.kind = "raise" THEN client
  ELSE LET req == TranscriptionRequest(client.value, model, audio_file) IN
       IF resp.kind = "raise" THEN Raised(resp.exc, <<req>>)
       ELSE IF strip(resp.text) = <<>>
            THEN Raised(Exc("ValueError", EmptyTranscriptionMsg), <<req>>)
            ELSE Returned(resp.text, <<req>>)

transcribe_audio(audio_file, model, api_key, resp) ==
  LET client == _get_openai_client(api_key) IN
  IF client.kind = "raise" THEN client
  ELSE LET req == TranscriptionRequest(client.value, model, audio_file) IN
       IF resp.kind = "raise" THEN Raised(resp.exc, <<req>>)
       ELSE LET text == strip(resp.text) IN
            IF text = <<>>
            THEN Raised(Exc("ValueError", EmptyTranscriptionMsg), <<req>>)
            ELSE Returned(text, <<req>>)

(***************************************************************************)
(* build_image_prompt: the three-tier ladder.  r1 answers the primary      *)
(* request and r2 the fallback request, if that one is made.               *)
(***************************************************************************)
TemplatePrefix ==
  <<"A", " ", "d", "e", "t", "a", "i", "l", "e", "d", ",", " ", "a", "r",
    "t", "i", "s", "t", "i", "c", " ", "v", "i", "s", "u", "a", "l", "i",
    "z", "a", "t", "i", "o", "n", " ", "o", "f", ":", " ">>
TemplateSuffix ==
  <<".", " ", "H", "i", "g", "h", " ", "q", "u", "a", "l", "i", "t", "y",
    ",", " ", "v", "i", "v", "i", "d", " ", "c", "o", "l", "o", "r", "s",
    ",", " ", "p", "r", "o", "f", "e", "s", "s", "i", "o", "n", "a", "l",
    " ", "c", "o", "m", "p", "o", "s", "i", "t", "i", "o", "n", ",", " ",
    "c", "i", "n", "e", "m", "a", "t", "i", "c", " ", "l", "i", "g", "h",
    "t", "i", "n", "g", ".">>

\* The final tier: pure string formatting.
fallback_prompt_unstripped(text) == TemplatePrefix \o text \o TemplateSuffix

fallback_prompt(text) == TemplatePrefix \o strip(text) \o TemplateSuffix

\* The body of the outer try: the stripped completion, or the exception that
\* sends control to the except clause.
primary_attempt_unchecked(r1) ==
  IF r1.kind = "raise" THEN Raised(r1.exc, <<>>)
  ELSE IF r1.choices = <<>>
       THEN Raised(Exc("IndexError", "list index out of range"), <<>>)
       ELSE LET prompt == r1.choices[1] IN
            IF prompt = None
            THEN Raised(Exc("ValueError", "LLM returned None"), <<>>)
            ELSE Returned(strip(prompt[1]), <<>>)

primary_attempt(r1) ==
  IF r1.kind = "raise" THEN Raised(r1.exc, <<>>)
  ELSE IF r1.choices = <<>>
       THEN Raised(Exc("IndexError", "list index out of range"), <<>>)
       ELSE LET prompt == r1.choices[1] IN
            IF prompt = None
            THEN Raised(Exc("ValueError", "LLM returned None"), <<>>)
            ELSE IF strip(prompt[1]) = <<>>
                 THEN Raised(Exc("ValueError", "Empty prompt returned"), <<>>)
                 ELSE Returned(strip(prompt[1]), <<>>)

\* The body of the inner try: Some(stripped completion) when it returns from
\* the function, None when control falls through to the final tier.
fallback_attempt_skipped(r2) == None

fallback_attempt_unchecked(r2) ==
  IF r2.kind = "raise" THEN None
  ELSE IF r2.choices = <<>> THEN None
       ELSE LET prompt == r2.choices[1] IN
            IF prompt # None THEN Some(strip(prompt[1])) ELSE None

fallback_attempt(r2) ==
  IF r2.kind = "raise" THEN None
  ELSE IF r2.choices = <<>> THEN None
       ELSE LET prompt == r2.choices[1] IN
            IF prompt # None /\ prompt[1] # <<>> /\ strip(prompt[1]) # <<>>
            THEN Some(strip(prompt[1]))
            ELSE None

build_image_prompt_unvalidated(text, model, api_key, r1, r2) ==
  LET client == _get_openai_client(api_key) IN
  IF client.kind = "raise" THEN client
  ELSE
    LET primary == ChatRequest(client.value, model, "system_message",
                               "user_message", text, 8, 300)
        fallback == ChatRequest(client.value, model, "fallback_system",
                                "fallback_user", text, 7, 250)
        first == primary_attempt(r1)
    IN IF first.kind = "return"
       THEN Returned(first.value, <<primary>>)
       ELSE LET second == fallback_attempt(r2) IN
            IF second # None
            THEN Returned(second[1], <<primary, fallback>>)
            ELSE Returned(fallback_prompt(text), <<primary, fallback>>)

build_image_prompt_without_fallback(text, model, api_key, r1, r2) ==
  IF text = <<>> \/ strip(text) = <<>>
  THEN Raised(Exc("ValueError", EmptyTranscriptMsg), <<>>)
  ELSE
    LET client == _get_openai_client(api_key) IN
    IF client.kind = "raise" THEN client
    ELSE
      LET primary == ChatRequest(client.value, model, "system_message",
                                 "user_message", text, 8, 300)
          first == primary_attempt(r1)
      IN IF first.kind = "return"
         THEN Returned(first.value, <<primary>>)
         ELSE Returned(fallback_prompt(text), <<primary>>)

build_image_prompt_asking_twice(text, model, api_key, r1, r2) ==
  IF text = <<>> \/ strip(text) = <<>>
  THEN Raised(Exc("ValueError", EmptyTranscriptMsg), <<>>)
  ELSE
    LET client == _get_openai_client(api_key) IN
    IF client.kind = "raise" THEN client
    ELSE
      LET primary == ChatRequest(client.value, model, "system_message",
                                 "user_message", text, 8, 300)
          fallback == ChatRequest(client.value, model, "fallback_system",
                                  "fallback_user", text, 7, 250)
          first == primary_attempt(r1)
          second == fallback_attempt(r2)
      IN IF first.kind = "return"
         THEN Returned(first.value, <<primary, fallback>>)
         ELSE IF second # None
              THEN Returned(second[1], <<primary, fallback>>)
              ELSE Returned(fallback_prompt(text), <<primary, fallback>>)

build_image_prompt(text, model, api_key, r1, r2) ==
  IF text = <<>> \/ strip(text) = <<>>
  THEN Raised(Exc("ValueError", EmptyTranscriptMsg), <<>>)
  ELSE
    LET client == _get_openai_client(api_key) IN
    IF client.kind = "raise" THEN client
    ELSE
      LET primary == ChatRequest(client.value, model, "system_message",
                                 "user_message", text, 8, 300)
          fallback == ChatRequest(client.value, model, "fallback_system",
                                  "fallback_user", text, 7, 250)
          first == primary_attempt(r1)
      IN IF first.kind = "return"
         THEN Returned(first.value, <<primary>>)
         ELSE LET second == fallback_attempt(r2) IN
              IF second # None
              THEN Returned(second[1], <<primary, fallback>>)
              ELSE Returned(fallback_prompt(text), <<primary, fallback>>)

(***************************************************************************)
(* base64.b64decode, on what the provider may send (B64Payloads): whole    *)
(* quadruples with "=" padding at the end, or a payload cut short.         *)
(***************************************************************************)
\* The value of a character of the base64 alphabet ("=" pads, and counts for 0).
b64index(c) ==
  CASE c = "I" -> 8
    [] c = "Q" -> 16
    [] c = "U" -> 20
    [] c = "v" -> 47
    [] c = "=" -> 0

RECURSIVE a2b_base64(_)
a2b_base64(s) ==
  IF s = <<>> THEN <<>>
  ELSE LET v(i) == b64index(s[i])
           b1 == v(1) * 4 + v(2) \div 16
           b2 == (v(2) % 16) * 16 + v(3) \div 4
           b3 == (v(3) % 4) * 64 + v(4)
       IN IF s[3] = "=" THEN <<b1>>
          ELSE IF s[4] = "=" THEN <<b1, b2>>
          ELSE <<b1, b2, b3>> \o a2b_base64(SubSeq(s, 5, Len(s)))

b64decode(b64) ==
  IF b64 = None
  THEN Raised(Exc("TypeError",
                  "argument should be a bytes-like object or ASCII string, not 'NoneType'"),
              <<>>)
  ELSE IF Len(b64[1]) % 4 # 0
       THEN Raised(Exc("binascii.Error", "Incorrect padding"), <<>>)
       ELSE Returned(a2b_base64(b64[1]), <<>>)

(***************************************************************************)
(* generate_image                                                          *)
(***************************************************************************)
generate_image_unvalidated(prompt, model, size, api_key, resp) ==
  LET client == _get_openai_client(api_key) IN
  IF client.kind = "raise" THEN client
  ELSE LET req == ImageRequest(client.value, model, prompt, size) IN
       IF resp.kind = "raise" THEN Raised(resp.exc, <<req>>)
       ELSE LET image == b64decode(resp.b64_json) IN
            IF image.kind = "raise" THEN Raised(image.exc, <<req>>)
            ELSE Returned(<<image.value, [model |-> model, size |-> size]>>,
                          <<req>>)

generate_image_reporting(prompt, model, size, api_key, resp) ==
  IF prompt = <<>> \/ strip(prompt) = <<>>
  THEN Raised(Exc("ValueError", EmptyPromptMsg), <<>>)
  ELSE
    LET client == _get_openai_client(api_key) IN
    IF client.kind = "raise" THEN client
    ELSE LET req == ImageRequest(client.value, model, prompt, size) IN
         IF resp.kind = "raise" THEN Raised(resp.exc, <<req>>)
         ELSE LET image == b64decode(resp.b64_json) IN
              IF image.kind = "raise" THEN Raised(image.exc, <<req>>)
              ELSE Returned(<<image.value,
                              [model |-> resp.model, size |-> size]>>,
                            <<req>>)

generate_image(prompt, model, size, api_key, resp) ==
  IF prompt = <<>> \/ strip(prompt) = <<>>
  THEN Raised(Exc("ValueError", EmptyPromptMsg), <<>>)
  ELSE
    LET client == _get_openai_client(api_key) IN
    IF client.kind = "raise" THEN client
    ELSE LET req == ImageRequest(client.value, model, prompt, size) IN
         IF resp.kind = "raise" THEN Raised(resp.exc, <<req>>)
         ELSE LET image == b64decode(resp.b64_json) IN
              IF image.kind = "raise" THEN Raised(image.exc, <<req>>)
              ELSE Returned(<<image.value, [model |-> model, size |-> size]>>,
                            <<req>>)

(***************************************************************************)
(* app.py: the session state and run_pipeline.                             *)
(***************************************************************************)
NoLocals ==
  [audio_buffer |-> [name |-> ""], transcription_model |-> "",
   llm_model |-> "", image_model |-> "", api_key |-> None,
   transcript |-> <<>>, prompt |-> <<>>]

NothingReturned == [transcript |-> None, prompt |-> None, image_bytes |-> None]

NoCall == [fn |-> "", api_key |-> None, model |-> "", text |-> <<>>, size |-> ""]
NoRet == [result |-> Returned(None, <<>>), resps |-> <<>>]

\* What the file uploader hands to run_pipeline: nothing, or a file and its name.
UploadedAudio == {None} \cup {Some([name |-> n]) : n \in {"", "speech.mp3"}}

\* The names of the provider operations a function called, in order.
Apis(requests) == [i \in 1..Len(requests) |-> requests[i].api]

\* init_session_state: the defaults of a fresh session.
init_session_state ==
  /\ transcript = <<>>
  /\ image_prompt = <<>>
  /\ image_bytes = None
  /\ error_message = ""
  /\ openai_api_key = ""
  /\ models_used = [transcription_model |-> "whisper-1",
                    llm_model |-> "gpt-5-nano",
                    image_model |-> "gpt-image-1"]
  /\ image_size = "1024x1024"

Init ==
  /\ init_session_state
  /\ env_key \in EnvKeys
  /\ pc = "idle"
  /\ locals = NoLocals
  /\ calls = <<>>
  /\ invoked = <<>>
  /\ last_resp = NoResp
  /\ returned = NothingReturned
  /\ stale = FALSE
  /\ inp = NoCall
  /\ ret = NoRet

\* render_sidebar: every widget's value is written to the session state.  It
\* runs at the start of every script run, so between pipeline runs only;
\* Streamlit reruns the script on every interaction with a widget, so one
\* widget's value differs from the stored one in each run.
RenderSidebar ==
  /\ pc \in {"idle", "done"}
  /\ \/ /\ \E key \in ApiKeyInputs \ {openai_api_key} :
              openai_api_key' = key
        /\ UNCHANGED <<models_used, image_size>>
     \/ /\ \E tm \in TranscriptionModels \ {models_used.transcription_model} :
              models_used' = [models_used EXCEPT !.transcription_model = tm]
        /\ UNCHANGED <<openai_api_key, image_size>>
     \/ /\ \E lm \in LLMModels \ {models_used.llm_model} :
              models_used' = [models_used EXCEPT !.llm_model = lm]
        /\ UNCHANGED <<openai_api_key, image_size>>
     \/ /\ \E im \in ImageModels \ {models_used.image_model} :
              models_used' = [models_used EXCEPT !.image_model = im]
        /\ UNCHANGED <<openai_api_key, image_size>>
     \/ /\ \E size \in ImageSizes \ {image_size} :
              image_size' = size
        /\ UNCHANGED <<openai_api_key, models_used>>
  /\ UNCHANGED <<env_key, error_message, transcript, image_prompt,
                 image_bytes, pc, run, inp, ret>>

\* The local variables run_pipeline sets before its try statement.
EntryLocals(uploaded_audio) ==
  [audio_buffer |->
     [name |-> IF uploaded_audio[1].name # ""
               THEN uploaded_audio[1].name
               ELSE "voice_message.wav"],
   transcription_model |-> models_used.transcription_model,
   llm_model |-> models_used.llm_model,
   image_model |-> models_used.image_model,
   api_key |-> IF openai_api_key # "" THEN Some(openai_api_key) ELSE None,
   transcript |-> <<>>,
   prompt |-> <<>>]

RunPipelineEntryGuardFirst ==
  /\ pc \in {"idle", "done"}
  /\ \E uploaded_audio \in UploadedAudio :
       /\ inp' = [fn |-> "run_pipeline", audio |-> uploaded_audio # None]
       /\ IF uploaded_audio = None
          THEN /\ error_message' = NoAudioMsg
               /\ UNCHANGED <<transcript, image_prompt, image_bytes>>
               /\ locals' = NoLocals
               /\ pc' = "done"
          ELSE /\ error_message' = ""
               /\ transcript' = <<>>
               /\ image_prompt' = <<>>
               /\ image_bytes' = None
               /\ locals' = EntryLocals(uploaded_audio)
               /\ pc' = "step1"
  /\ calls' = <<>>
  /\ invoked' = <<>>
  /\ last_resp' = NoResp
  /\ returned' = NothingReturned
  /\ stale' = (error_message # "" \/ transcript # <<>> \/ image_prompt # <<>>
                \/ image_bytes # None)
  /\ UNCHANGED <<env_key, openai_api_key, models_used, image_size, ret>>

RunPipelineEntryClearingTranscript ==
  /\ pc \in {"idle", "done"}
  /\ \E uploaded_audio \in UploadedAudio :
       /\ inp' = [fn |-> "run_pipeline", audio |-> uploaded_audio # None]
       /\ transcript' = <<>>
       /\ IF uploaded_audio = None
          THEN /\ error_message' = NoAudioMsg
               /\ locals' = NoLocals
               /\ pc' = "done"
          ELSE /\ error_message' = ""
               /\ locals' = EntryLocals(uploaded_audio)
               /\ pc' = "step1"
  /\ calls' = <<>>
  /\ invoked' = <<>>
  /\ last_resp' = NoResp
  /\ returned' = NothingReturned
  /\ stale' = (error_message # "" \/ transcript # <<>> \/ image_prompt # <<>>
                \/ image_bytes # None)
  /\ UNCHANGED <<env_key, image_prompt, image_bytes, openai_api_key,
                 models_used, image_size, ret>>

RunPipelineEntryKeeping ==
  /\ pc \in {"idle", "done"}
  /\ \E uploaded_audio \in UploadedAudio :
       /\ inp' = [fn |-> "run_pipeline", audio |-> uploaded_audio # None]
       /\ IF uploaded_audio = None
          THEN /\ error_message' = NoAudioMsg
               /\ locals' = NoLocals
               /\ pc' = "done"
          ELSE /\ error_message' = ""
               /\ locals' = EntryLocals(uploaded_audio)
               /\ pc' = "step1"
  /\ calls' = <<>>
  /\ invoked' = <<>>
  /\ last_resp' = NoResp
  /\ returned' = NothingReturned
  /\ stale' = (error_message # "" \/ transcript # <<>> \/ image_prompt # <<>>
                \/ image_bytes # None)
  /\ UNCHANGED <<env_key, transcript, image_prompt, image_bytes,
                 openai_api_key, models_used, image_size, ret>>

\* run_pipeline, from its entry to the try statement.
RunPipelineEntry ==
  /\ pc \in {"idle", "done"}
  /\ \E uploaded_audio \in UploadedAudio :
       /\ inp' = [fn |-> "run_pipeline", audio |-> uploaded_audio # None]
       /\ transcript' = <<>>
       /\ image_prompt' = <<>>
       /\ image_bytes' = None
       /\ IF uploaded_audio = None
          THEN /\ error_message' = NoAudioMsg
               /\ locals' = NoLocals
               /\ pc' = "done"
          ELSE /\ error_message' = ""
               /\ locals' = EntryLocals(uploaded_audio)
               /\ pc' = "step1"
  /\ calls' = <<>>
  /\ invoked' = <<>>
  /\ last_resp' = NoResp
  /\ returned' = NothingReturned
  /\ stale' = (error_message # "" \/ transcript # <<>> \/ image_prompt # <<>>
                \/ image_bytes # None)
  /\ UNCHANGED <<env_key, openai_api_key, models_used, image_size, ret>>

ExceptHandlerDiscarding(exc) ==
  /\ error_message' = str(exc)
  /\ transcript' = <<>>
  /\ image_prompt' = <<>>
  /\ image_bytes' = None
  /\ locals' = NoLocals
  /\ pc' = "done"

ExceptHandlerSwallowing(exc) ==
  /\ error_message' = ""
  /\ UNCHANGED <<transcript, image_prompt, image_bytes>>
  /\ locals' = NoLocals
  /\ pc' = "done"

\* except Exception as exc: the message is stored and run_pipeline returns;
\* the handler writes nothing else.
ExceptHandler(exc) ==
  /\ error_message' = str(exc)
  /\ UNCHANGED <<transcript, image_prompt, image_bytes>>
  /\ locals' = NoLocals
  /\ pc' = "done"

Step1TranscribeAudioRetrying ==
  /\ pc = "step1"
  /\ \E resp \in TranscriptionResponses :
       LET r == transcribe_audio(locals.audio_buffer,
                                 locals.transcription_model,
                                 locals.api_key, resp)
       IN /\ invoked' = Append(invoked, "transcribe_audio")
          /\ calls' = calls \o Apis(r.calls)
          /\ last_resp' = IF r.calls = <<>> THEN last_resp ELSE resp
          /\ IF r.kind = "return"
             THEN /\ locals' = [locals EXCEPT !.transcript = r.value]
                  /\ transcript' = r.value
                  /\ returned' = [returned EXCEPT !.transcript = Some(r.value)]
                  /\ pc' = "step2"
                  /\ UNCHANGED <<error_message, image_prompt, image_bytes>>
             ELSE UNCHANGED <<error_message, transcript, image_prompt,
                              image_bytes, locals, returned, pc>>
  /\ UNCHANGED <<env_key, openai_api_key, models_used, image_size, stale,
                 inp, ret>>

Step1TranscribeAudioUnstored ==
  /\ pc = "step1"
  /\ \E resp \in TranscriptionResponses :
       LET r == transcribe_audio(locals.audio_buffer,
                                 locals.transcription_model,
                                 locals.api_key, resp)
       IN /\ invoked' = Append(invoked, "transcribe_audio")
          /\ calls' = calls \o Apis(r.calls)
          /\ last_resp' = IF r.calls = <<>> THEN last_resp ELSE resp
          /\ IF r.kind = "return"
             THEN /\ locals' = [locals EXCEPT !.transcript = r.value]
                  /\ returned' = [returned EXCEPT !.transcript = Some(r.value)]
                  /\ pc' = "step2"
                  /\ UNCHANGED <<error_message, transcript, image_prompt,
                                 image_bytes>>
             ELSE /\ ExceptHandler(r.exc)
                  /\ UNCHANGED returned
  /\ UNCHANGED <<env_key, openai_api_key, models_used, image_size, stale,
                 inp, ret>>

\* Step 1/3: transcribe_audio, and the transcript stored.
Step1TranscribeAudio ==
  /\ pc = "step1"
  /\ \E resp \in TranscriptionResponses :
       LET r == transcribe_audio(locals.audio_buffer,
                                 locals.transcription_model,
                                 locals.api_key, resp)
       IN /\ invoked' = Append(invoked, "transcribe_audio")
          /\ calls' = calls \o Apis(r.calls)
          /\ last_resp' = IF r.calls = <<>> THEN last_resp ELSE resp
          /\ IF r.kind = "return"
             THEN /\ locals' = [locals EXCEPT !.transcript = r.value]
                  /\ transcript' = r.value
                  /\ returned' = [returned EXCEPT !.transcript = Some(r.value)]
                  /\ pc' = "step2"
                  /\ UNCHANGED <<error_message, image_prompt, image_bytes>>
             ELSE /\ ExceptHandler(r.exc)
                  /\ UNCHANGED returned
  /\ UNCHANGED <<env_key, openai_api_key, models_used, image_size, stale,
                 inp, ret>>

\* Step 2/3: build_image_prompt on the local transcript, and the prompt stored.
Step2BuildImagePrompt ==
  /\ pc = "step2"
  /\ \E r1 \in ChatResponses : \E r2 \in FallbackResponses(r1) :
       LET r == build_image_prompt(locals.transcript, locals.llm_model,
                                   locals.api_key, r1, r2)
       IN /\ invoked' = Append(invoked, "build_image_prompt")
          /\ calls' = calls \o Apis(r.calls)
          /\ last_resp' = IF r.calls = <<>> THEN last_resp
                          ELSE <<r1, r2>>[Len(r.calls)]
          /\ IF r.kind = "return"
             THEN /\ locals' = [locals EXCEPT !.prompt = r.value]
                  /\ image_prompt' = r.value
                  /\ returned' = [returned EXCEPT !.prompt = Some(r.value)]
                  /\ pc' = "step3"
                  /\ UNCHANGED <<error_message, transcript, image_bytes>>
             ELSE /\ ExceptHandler(r.exc)
                  /\ UNCHANGED returned
  /\ UNCHANGED <<env_key, openai_api_key, models_used, image_size, stale,
                 inp, ret>>

Step3GenerateImageUnstored ==
  /\ pc = "step3"
  /\ \E resp \in ImageResponses :
       LET r == generate_image(locals.prompt, locals.image_model, image_size,
                               locals.api_key, resp)
       IN /\ invoked' = Append(invoked, "generate_image")
          /\ calls' = calls \o Apis(r.calls)
          /\ last_resp' = IF r.calls = <<>> THEN last_resp ELSE resp
          /\ IF r.kind = "return"
             THEN /\ models_used' =
                       [models_used EXCEPT !.image_model = r.value[2].model]
                  /\ returned' =
                       [returned EXCEPT !.image_bytes = Some(r.value[1])]
                  /\ locals' = NoLocals
                  /\ pc' = "done"
                  /\ UNCHANGED <<error_message, transcript, image_prompt,
                                 image_bytes>>
             ELSE /\ ExceptHandler(r.exc)
                  /\ UNCHANGED <<models_used, returned>>
  /\ UNCHANGED <<env_key, openai_api_key, image_size, stale, inp, ret>>

\* Step 3/3: generate_image on the local prompt; the bytes are stored and the
\* image model is overwritten with the metadata's model.
Step3GenerateImage ==
  /\ pc = "step3"
  /\ \E resp \in ImageResponses :
       LET r == generate_image(locals.prompt, locals.image_model, image_size,
                               locals.api_key, resp)
       IN /\ invoked' = Append(invoked, "generate_image")
          /\ calls' = calls \o Apis(r.calls)
          /\ last_resp' = IF r.calls = <<>> THEN last_resp ELSE resp
          /\ IF r.kind = "return"
             THEN /\ image_bytes' = Some(r.value[1])
                  /\ models_used' =
                       [models_used EXCEPT !.image_model = r.value[2].model]
                  /\ returned' =
                       [returned EXCEPT !.image_bytes = Some(r.value[1])]
                  /\ locals' = NoLocals
                  /\ pc' = "done"
                  /\ UNCHANGED <<error_message, transcript, image_prompt>>
             ELSE /\ ExceptHandler(r.exc)
                  /\ UNCHANGED <<models_used, returned>>
  /\ UNCHANGED <<env_key, openai_api_key, image_size, stale, inp, ret>>

Next ==
  \/ RenderSidebar
  \/ RunPipelineEntry
  \/ Step1TranscribeAudio
  \/ Step2BuildImagePrompt
  \/ Step3GenerateImage

Spec == Init /\ [][Next]_vars

\* run_pipeline is straight-line code: once entered it goes on to the next
\* stage call, and every provider call returns or raises, so a stage that is
\* due is taken.  The sidebar and the next run wait for the user.
FairSpec ==
  /\ Spec
  /\ WF_vars(Step1TranscribeAudio)
  /\ WF_vars(Step2BuildImagePrompt)
  /\ WF_vars(Step3GenerateImage)

(***************************************************************************)
(* The stage functions called directly, on any argument: each behaviour    *)
(* is one call, from its arguments (inp) to its outcome (ret).             *)
(***************************************************************************)
StageCalls ==
  {[fn |-> "_get_openai_client", api_key |-> k, model |-> "",
    text |-> <<>>, size |-> ""] : k \in ApiKeyArgs}
    \cup {[fn |-> "transcribe_audio", api_key |-> k, model |-> m,
           text |-> <<>>, size |-> ""] :
            k \in ApiKeyArgs, m \in TranscriptionModels}
    \cup {[fn |-> "build_image_prompt", api_key |-> k, model |-> m,
           text |-> t, size |-> ""] :
            k \in ApiKeyArgs, m \in LLMModels, t \in Strings}
    \cup {[fn |-> "generate_image", api_key |-> k, model |-> m,
           text |-> t, size |-> z] :
            k \in ApiKeyArgs, m \in ImageModels, t \in Strings,
            z \in ImageSizes}

StageInit ==
  /\ init_session_state
  /\ env_key \in EnvKeys
  /\ pc = "call"
  /\ locals = NoLocals
  /\ calls = <<>>
  /\ invoked = <<>>
  /\ last_resp = NoResp
  /\ returned = NothingReturned
  /\ stale = FALSE
  /\ inp \in StageCalls
  /\ ret = NoRet

CallGetOpenAIClient ==
  /\ pc = "call"
  /\ inp.fn = "_get_openai_client"
  /\ ret' = [result |-> _get_openai_client(inp.api_key), resps |-> <<>>]
  /\ pc' = "returned"
  /\ UNCHANGED <<env_key, session, run, inp>>

CallTranscribeAudio ==
  /\ pc = "call"
  /\ inp.fn = "transcribe_audio"
  /\ \E resp \in TranscriptionResponses :
       LET r == transcribe_audio([name |-> "speech.mp3"], inp.model,
                                 inp.api_key, resp)
       IN ret' = [result |-> r, resps |-> SubSeq(<<resp>>, 1, Len(r.calls))]
  /\ pc' = "returned"
  /\ UNCHANGED <<env_key, session, run, inp>>

CallBuildImagePrompt ==
  /\ pc = "call"
  /\ inp.fn = "build_image_prompt"
  /\ \E r1 \in ChatResponses : \E r2 \in FallbackResponses(r1) :
       LET r == build_image_prompt(inp.text, inp.model, inp.api_key, r1, r2)
       IN ret' = [result |-> r, resps |-> SubSeq(<<r1, r2>>, 1, Len(r.calls))]
  /\ pc' = "returned"
  /\ UNCHANGED <<env_key, session, run, inp>>

CallGenerateImage ==
  /\ pc = "call"
  /\ inp.fn = "generate_image"
  /\ \E resp \in ImageResponses :
       LET r == generate_image(inp.text, inp.model, inp.size, inp.api_key,
                               resp)
       IN ret' = [result |-> r, resps |-> SubSeq(<<resp>>, 1, Len(r.calls))]
  /\ pc' = "returned"
  /\ UNCHANGED <<env_key, session, run, inp>>

StageNext ==
  \/ CallGetOpenAIClient
  \/ CallTranscribeAudio
  \/ CallBuildImagePrompt
  \/ CallGenerateImage

StageSpec == StageInit /\ [][StageNext]_vars

(***************************************************************************)
(* Properties.  What they say of texts is stated on its own terms, not     *)
(* with the operators that model the code.                                 *)
(***************************************************************************)
\* A text that is not empty after trimming: it holds a non-whitespace character.
NonBlank(s) == \E i \in 1..Len(s) : s[i] \notin {" ", "\t", "\n"}

\* A text with its leading and trailing whitespace removed: the part from its
\* first to its last non-whitespace character.
Trimmed(s) ==
  IF ~NonBlank(s) THEN <<>>
  ELSE LET solid == {i \in 1..Len(s) : s[i] \notin {" ", "\t", "\n"}}
           lo == CHOOSE i \in solid : \A j \in solid : i <= j
           hi == CHOOSE i \in solid : \A j \in solid : j <= i
       IN [i \in 1..(hi - lo + 1) |-> s[lo + i - 1]]

\* A credential that can be used: present and not empty.
Usable(key) == key \notin {<<>>, <<"">>}

\* A text-generation answer that gives no usable prompt: an error, no choice,
\* no content, or blank content.
NoPrompt(r) ==
  \/ r.kind = "raise"
  \/ r.choices = <<>>
  \/ r.choices[1] = <<>>
  \/ ~NonBlank(r.choices[1][1])

\* A direct call of function fn has returned or raised.
Called(fn) == pc = "returned" /\ inp.fn = fn

\* C1: given a usable credential and a transcript that is not blank,
\* build_image_prompt returns a prompt that is not blank, whatever the primary
\* and the fallback text-generation call answer; it never raises.
C1_PromptNeverBlank ==
  (/\ Called("build_image_prompt")
   /\ Usable(inp.api_key) \/ Usable(env_key)
   /\ NonBlank(inp.text))
    => /\ ret.result.kind = "return"
       /\ NonBlank(ret.result.value)

\* C1's case: the primary call raised and the fallback call answered blank text.
C1_Witness ==
  /\ Called("build_image_prompt")
  /\ NonBlank(inp.text)
  /\ Len(ret.resps) = 2
  /\ ret.resps[1].kind = "raise"
  /\ ret.resps[2].choices = <<Some(<<" ", " ">>)>>
  /\ ret.result.kind = "return"

\* Where a run of the pipeline ended: the stage that raised, by its number.
FailedAt(k) ==
  /\ pc = "done"
  /\ Len(invoked) = k
  /\ CASE k = 1 -> returned.transcript = None
       [] k = 2 -> returned.prompt = None
       [] k = 3 -> returned.image_bytes = None

\* The value a stage returned in this run, or what the field holds when cleared.
Stored(opt, cleared) == IF opt = None THEN cleared ELSE opt[1]

\* C2: when the image-generation call raises a provider error after the first
\* two stages succeeded, the run ends with the error message set, the
\* transcript and the prompt of this run still stored, and no image; and a run
\* that failed at any stage still holds what the stages before it stored.
C2_FailureKeepsEarlierResults ==
  /\ (/\ FailedAt(3)
      /\ Len(calls) > 0
      /\ calls[Len(calls)] = "images.generate"
      /\ last_resp.kind = "raise")
       => /\ error_message = last_resp.exc.msg
          /\ error_message # ""
          /\ returned.transcript # None
          /\ returned.prompt # None
          /\ NonBlank(transcript)
          /\ NonBlank(image_prompt)
          /\ image_bytes = None
  /\ (\E k \in 1..3 : FailedAt(k))
       => /\ transcript = Stored(returned.transcript, <<>>)
          /\ image_prompt = Stored(returned.prompt, <<>>)
          /\ image_bytes = None

\* C2's case: the image-generation call raised after two successful stages.
C2_Witness ==
  /\ FailedAt(3)
  /\ calls = <<"audio.transcriptions.create", "chat.completions.create",
               "images.generate">>
  /\ last_resp.kind = "raise"
  /\ error_message = "Connection error."
  /\ transcript = <<"a", "a">>

\* C3: when the transcription call answers blank text, the run has ended with
\* the empty-transcription error, only transcribe_audio was invoked, no other
\* provider call was made, and no result field is populated.
C3_BlankTranscriptionStopsRun ==
  (/\ calls = <<"audio.transcriptions.create">>
   /\ last_resp.kind = "ok"
   /\ ~NonBlank(last_resp.text))
    => /\ pc = "done"
       /\ error_message = EmptyTranscriptionMsg
       /\ invoked = <<"transcribe_audio">>
       /\ returned = NothingReturned
       /\ transcript = <<>>
       /\ image_prompt = <<>>
       /\ image_bytes = None

\* C3's case: the transcription call answered two spaces.
C3_Witness ==
  /\ calls = <<"audio.transcriptions.create">>
  /\ last_resp.kind = "ok"
  /\ last_resp.text = <<" ", " ">>
  /\ pc = "done"

\* C4: the metadata generate_image returns names the model the provider
\* reported in its response, and the requested size.
C4_MetadataNamesReportedModel ==
  (Called("generate_image") /\ ret.result.kind = "return")
    => /\ ret.result.value[2].model = ret.resps[1].model
       /\ ret.result.value[2].size = inp.size

\* The deterministic prompt, as the specification words it.
ExpectedTemplate(text) ==
  <<"A", " ", "d", "e", "t", "a", "i", "l", "e", "d", ",", " ", "a", "r",
    "t", "i", "s", "t", "i", "c", " ", "v", "i", "s", "u", "a", "l", "i",
    "z", "a", "t", "i", "o", "n", " ", "o", "f", ":", " ">>
  \o Trimmed(text) \o
  <<".", " ", "H", "i", "g", "h", " ", "q", "u", "a", "l", "i", "t", "y",
    ",", " ", "v", "i", "v", "i", "d", " ", "c", "o", "l", "o", "r", "s",
    ",", " ", "p", "r", "o", "f", "e", "s", "s", "i", "o", "n", "a", "l",
    " ", "c", "o", "m", "p", "o", "s", "i", "t", "i", "o", "n", ",", " ",
    "c", "i", "n", "e", "m", "a", "t", "i", "c", " ", "l", "i", "g", "h",
    "t", "i", "n", "g", ".">>

\* C5: when neither text-generation call gives a usable prompt,
\* build_image_prompt returns the fixed template around the trimmed
\* transcript, having made the two requests and no other.
C5_BothFailGivesTemplate ==
  (/\ Called("build_image_prompt")
   /\ Len(ret.resps) = 2
   /\ NoPrompt(ret.resps[1])
   /\ NoPrompt(ret.resps[2]))
    => /\ ret.result.kind = "return"
       /\ ret.result.value = ExpectedTemplate(inp.text)
       /\ Len(ret.result.calls) = 2

\* C5's case: a transcript with whitespace before it, the primary call raised
\* and the fallback call answered no content.
C5_Witness ==
  /\ Called("build_image_prompt")
  /\ inp.text = <<" ", "a">>
  /\ ret.result.value = ExpectedTemplate(<<"a">>)
  /\ Len(ret.resps) = 2
  /\ ret.resps[1].kind = "raise"
  /\ ret.resps[2].choices = <<None>>
  /\ ret.result.kind = "return"

\* C6: when the primary call gives no usable prompt and the fallback call
\* answers text that is not blank, build_image_prompt returns that text trimmed.
C6_FallbackBeatsTemplate ==
  (/\ Called("build_image_prompt")
   /\ Len(ret.resps) = 2
   /\ NoPrompt(ret.resps[1])
   /\ ~NoPrompt(ret.resps[2]))
    => /\ ret.result.kind = "return"
       /\ ret.result.value = Trimmed(ret.resps[2].choices[1][1])

\* C6's case: the primary call answered blank text and the fallback " a".
C6_Witness ==
  /\ Called("build_image_prompt")
  /\ Len(ret.resps) = 2
  /\ ret.resps[1].choices = <<Some(<<" ">>)>>
  /\ ret.resps[2].choices = <<Some(<<" ", "a">>)>>
  /\ ret.result.value = <<"a">>

\* C7: generate_image on a blank prompt raises the empty-prompt error without
\* a provider request, whatever the credentials.
C7_BlankPromptRaisesBeforeAnyCall ==
  (Called("generate_image") /\ ~NonBlank(inp.text))
    => /\ ret.result.kind = "raise"
       /\ ret.result.exc = Exc("ValueError", EmptyPromptMsg)
       /\ ret.result.calls = <<>>
       /\ ret.resps = <<>>

\* C7's case: a prompt of one space and no credential anywhere.
C7_Witness ==
  /\ Called("generate_image")
  /\ inp.text = <<" ">>
  /\ ~Usable(inp.api_key)
  /\ ~Usable(env_key)
  /\ ret.result.kind = "raise"

StageOrder == <<"transcribe_audio", "build_image_prompt", "generate_image">>
ApiOrder ==
  <<"audio.transcriptions.create", "chat.completions.create",
    "images.generate">>
Count(seq, x) == Cardinality({i \in 1..Len(seq) : seq[i] = x})
StageOf(api) == CHOOSE k \in 1..3 : ApiOrder[k] = api

\* C8: in a run the stages are invoked in order, each once and only after the
\* one before it returned, and the transcription and the image-generation
\* operation of the provider are each called at most once.
C8_StagesOnlyMoveForward ==
  /\ Len(invoked) <= 3
  /\ invoked = SubSeq(StageOrder, 1, Len(invoked))
  /\ Len(invoked) >= 2 => returned.transcript # None
  /\ Len(invoked) >= 3 => returned.prompt # None
  /\ pc = "step1" => invoked = <<>>
  /\ pc = "step2" => Len(invoked) = 1
  /\ pc = "step3" => Len(invoked) = 2
  /\ Count(calls, "audio.transcriptions.create") <= 1
  /\ Count(calls, "images.generate") <= 1
  /\ Count(calls, "chat.completions.create") <= 2
  /\ \A i, j \in 1..Len(calls) : i < j => StageOf(calls[i]) <= StageOf(calls[j])
  /\ \A i \in 1..Len(calls) : StageOf(calls[i]) <= Len(invoked)

\* C8's case: a run through all three stages, the prompt stage calling twice.
C8_Witness ==
  /\ pc = "done"
  /\ invoked = StageOrder
  /\ calls = <<"audio.transcriptions.create", "chat.completions.create",
               "chat.completions.create", "images.generate">>

\* C9: the entry of a run clears the error message and the three results, so
\* whatever is stored was produced by the current run.
C9_OnlyThisRunsResultsVisible ==
  /\ pc = "step1" => /\ error_message = ""
                     /\ transcript = <<>>
                     /\ image_prompt = <<>>
                     /\ image_bytes = None
  /\ pc \in {"step2", "step3"} => error_message = ""
  /\ transcript = Stored(returned.transcript, <<>>)
  /\ image_prompt = Stored(returned.prompt, <<>>)
  /\ image_bytes = returned.image_bytes
  /\ error_message # "" =>
       /\ pc = "done"
       /\ returned.image_bytes = None
       /\ Len(invoked) < 3 => Stored(returned.prompt, <<>>) = <<>>
       /\ Len(invoked) < 2 => Stored(returned.transcript, <<>>) = <<>>

\* C9's case: a run that started over an earlier run's outcome and failed in
\* its first stage.
C9_Witness ==
  /\ stale
  /\ FailedAt(1)
  /\ transcript = <<>>
  /\ error_message = "Rate limit reached."

\* C10: with neither an explicit nor an ambient credential, the first stage
\* ends the run with the missing-key error, no provider call made and no
\* result stored.
C10_NoCredentialFailsBeforeAnyCall ==
  [][(/\ pc = "step1"
      /\ ~Usable(Some(openai_api_key))
      /\ ~Usable(env_key))
       => /\ pc' = "done"
          /\ error_message' = MissingKeyMsg
          /\ invoked' = <<"transcribe_audio">>
          /\ calls' = <<>>
          /\ transcript' = <<>>
          /\ image_prompt' = <<>>
          /\ image_bytes' = None]_vars

\* C10's case: a run ended by the missing-key error.
C10_Witness ==
  /\ pc = "done"
  /\ ~Usable(Some(openai_api_key))
  /\ ~Usable(env_key)
  /\ error_message = MissingKeyMsg
  /\ invoked = <<"transcribe_audio">>
  /\ calls = <<>>

\* C11: when the transcription call answers text that is not blank,
\* transcribe_audio returns that text with its leading and trailing whitespace
\* removed; and whatever it returns is not blank.
C11_TranscriptIsTrimmedText ==
  /\ (/\ Called("transcribe_audio")
      /\ Len(ret.resps) = 1
      /\ ret.resps[1].kind = "ok"
      /\ NonBlank(ret.resps[1].text))
       => /\ ret.result.kind = "return"
          /\ ret.result.value = Trimmed(ret.resps[1].text)
  /\ (Called("transcribe_audio") /\ ret.result.kind = "return")
       => NonBlank(ret.result.value)

\* C11's case: the provider answered "a" after a space.
C11_Witness ==
  /\ Called("transcribe_audio")
  /\ Len(ret.resps) = 1
  /\ ret.resps[1].text = <<" ", "a">>
  /\ ret.result.kind = "return"
  /\ ret.result.value = <<"a">>

\* The bytes a well-formed base64 payload stands for.
BytesOf(payload) ==
  CASE payload = <<>> -> <<>>
    [] payload = <<"Q", "Q", "=", "=">> -> <<65>>
    [] payload = <<"Q", "U", "I", "v">> -> <<65, 66, 47>>

\* The run has ended after the image-generation call, the last of the three
\* stages, answered a well-formed payload.
AllStagesSucceeded ==
  /\ pc = "done"
  /\ invoked = StageOrder
  /\ Len(calls) >= 3
  /\ calls[Len(calls)] = "images.generate"
  /\ last_resp.kind = "ok"
  /\ last_resp.b64_json # <<>>
  /\ Len(last_resp.b64_json[1]) % 4 = 0

\* C12: when the three stages succeeded, the run has ended with no error
\* message, the transcript and the prompt its first two stages returned (neither
\* of them blank) and the bytes of the image payload; and while the run is
\* under way the transcript is the trimmed transcription and the prompt is what
\* the last text-generation answer gave, or the template.
C12_SuccessStoresAllThree ==
  /\ AllStagesSucceeded
       => /\ error_message = ""
          /\ returned.transcript # None
          /\ returned.prompt # None
          /\ transcript = returned.transcript[1]
          /\ image_prompt = returned.prompt[1]
          /\ NonBlank(transcript)
          /\ NonBlank(image_prompt)
          /\ image_bytes = <<BytesOf(last_resp.b64_json[1])>>
          /\ image_bytes = returned.image_bytes
  /\ pc = "step2" => transcript = Trimmed(last_resp.text)
  /\ pc = "step3" =>
       image_prompt = IF NoPrompt(last_resp) THEN ExpectedTemplate(transcript)
                      ELSE Trimmed(last_resp.choices[1][1])

\* C12's case: a run over an earlier outcome, through the three stages, that
\* ended with the image of three bytes.
C12_Witness ==
  /\ AllStagesSucceeded
  /\ stale
  /\ transcript = <<"a">>
  /\ NonBlank(image_prompt)
  /\ image_bytes = <<(<<65, 66, 47>>)>>
  /\ error_message = ""

\* The configuration of the pipeline: the credentials, the three model
\* identifiers and the image size.
PipelineConfig == <<env_key, openai_api_key, models_used, image_size>>

StageIdentified ==
  CASE transcript = <<>> -> 1
    [] transcript # <<>> /\ image_prompt = <<>> -> 2
    [] transcript # <<>> /\ image_prompt # <<>> -> 3

IsPrimaryRequest(req) ==
  /\ req.api = "chat.completions.create"
  /\ req.system = "system_message"
  /\ req.temperature = 8
  /\ req.max_tokens = 300
IsFallbackRequest(req) ==
  /\ req.api = "chat.completions.create"
  /\ req.system = "fallback_system"
  /\ req.temperature = 7
  /\ req.max_tokens = 250

\* C15: when the primary text-generation call answers text that is not blank,
\* build_image_prompt returns that text trimmed, having made the primary
\* request and no other.
C15_PrimaryAnswerReturnedAtOnce ==
  (/\ Called("build_image_prompt")
   /\ Len(ret.resps) >= 1
   /\ ~NoPrompt(ret.resps[1]))
    => /\ ret.result.kind = "return"
       /\ ret.result.value = Trimmed(ret.resps[1].choices[1][1])
       /\ Len(ret.result.calls) = 1
       /\ IsPrimaryRequest(ret.result.calls[1])
       /\ Len(ret.resps) = 1

\* C15's case: the primary call answered "a" and a space.
C15_Witness ==
  /\ Called("build_image_prompt")
  /\ ret.resps = <<[kind |-> "ok", exc |-> NoExc,
                    choices |-> <<Some(<<"a", " ">>)>>]>>
  /\ ret.result.value = <<"a">>
  /\ Len(ret.result.calls) = 1

\* The credential the specification resolves to: the explicit one when it can
\* be used, the ambient one otherwise.
Resolved(explicit, ambient) == IF Usable(explicit) THEN explicit ELSE ambient

\* C16: _get_openai_client returns a client with the explicit credential
\* whenever that one is present and not empty, whatever the ambient one, and
\* with the ambient credential exactly when the explicit one is absent or
\* empty; it sends no request; and every request of a stage function carries
\* the credential resolved that way.
C16_ExplicitCredentialFirst ==
  /\ Called("_get_openai_client")
       => /\ ret.result.calls = <<>>
          /\ ret.resps = <<>>
          /\ Usable(inp.api_key)
               => /\ ret.result.kind = "return"
                  /\ ret.result.value.api_key = inp.api_key[1]
          /\ (~Usable(inp.api_key) /\ Usable(env_key))
               => /\ ret.result.kind = "return"
                  /\ ret.result.value.api_key = env_key[1]
          /\ ret.result.kind = "return"
               => <<ret.result.value.api_key>> = Resolved(inp.api_key, env_key)
          /\ (~Usable(inp.api_key) /\ ~Usable(env_key))
               => ret.result.kind = "raise"
  /\ pc = "returned"
       => \A i \in 1..Len(ret.result.calls) :
            <<ret.result.calls[i].key>> = Resolved(inp.api_key, env_key)

\* C16's case: both credentials are there and the client has the explicit one.
C16_Witness ==
  /\ Called("_get_openai_client")
  /\ inp.api_key = <<"sk-user">>
  /\ env_key = <<"sk-env">>
  /\ ret.result.kind = "return"
  /\ ret.result.value.api_key = "sk-user"

\* What a call of build_image_prompt did: it made the fallback request; it
\* returned the template.
FallbackMade ==
  /\ Len(ret.result.calls) >= 2
  /\ IsFallbackRequest(ret.result.calls[2])
TemplateUsed ==
  /\ ret.result.kind = "return"
  /\ ret.result.value = ExpectedTemplate(inp.text)

\* The ladder: the fallback request is made exactly when the primary one gave
\* no usable prompt, the template is used exactly when the fallback one gave
\* none either, and the requests are at most two, the primary one first.
LadderOrder ==
  /\ FallbackMade <=> (Len(ret.resps) >= 1 /\ NoPrompt(ret.resps[1]))
  /\ TemplateUsed <=> (Len(ret.resps) >= 2 /\ NoPrompt(ret.resps[2]))
  /\ Len(ret.result.calls) <= 2
  /\ Len(ret.result.calls) = Len(ret.resps)
  /\ Len(ret.result.calls) >= 1 => IsPrimaryRequest(ret.result.calls[1])
  /\ Len(ret.result.calls) >= 2 => IsFallbackRequest(ret.result.calls[2])

\* C17, as claimed: build_image_prompt follows the ladder, and every
\* invocation makes at least one text-generation request.
C17_EveryInvocationCallsOnce ==
  Called("build_image_prompt")
    => /\ LadderOrder
       /\ Len(ret.result.calls) >= 1

\* C17, amended: build_image_prompt follows the ladder, and an invocation
\* makes at least one text-generation request exactly when its transcript is
\* not blank and a credential can be used; otherwise it makes none.
C17_LadderOrder ==
  Called("build_image_prompt")
    => /\ LadderOrder
       /\ Len(ret.result.calls) >= 1
            <=> (NonBlank(inp.text) /\ (Usable(inp.api_key) \/ Usable(env_key)))

\* C17's case: the primary call answered no content, the fallback call blank
\* text, and the template was returned after the two requests.
C17_Witness ==
  /\ Called("build_image_prompt")
  /\ inp.text = <<"a">>
  /\ Len(ret.resps) = 2
  /\ ret.resps[1].choices = <<None>>
  /\ ret.resps[2].choices = <<Some(<<" ">>)>>
  /\ FallbackMade
  /\ TemplateUsed

\* C18: build_image_prompt on a blank transcript raises the empty-transcript
\* error with no request made and no answer consumed, whatever the
\* credentials; so nothing is returned for a blank transcript, the template
\* least of all.
C18_BlankTranscriptRaisesBeforeLadder ==
  /\ (Called("build_image_prompt") /\ ~NonBlank(inp.text))
       => /\ ret.result.kind = "raise"
          /\ ret.result.exc = Exc("ValueError", EmptyTranscriptMsg)
          /\ ret.result.calls = <<>>
          /\ ret.resps = <<>>
          /\ ~FallbackMade
  /\ (Called("build_image_prompt") /\ TemplateUsed)
       => /\ NonBlank(inp.text)
          /\ ret.result.value # ExpectedTemplate(<<>>)

\* C18's case: a transcript of two spaces, with a usable credential.
C18_Witness ==
  /\ Called("build_image_prompt")
  /\ inp.text = <<" ", " ">>
  /\ Usable(inp.api_key)
  /\ ret.result.kind = "raise"
  /\ ret.result.exc.msg = EmptyTranscriptMsg
  /\ ret.result.calls = <<>>

\* C19: in a run, build_image_prompt is about to be invoked only on a
\* transcript that is not blank, and generate_image only on a prompt that is
\* not blank, each being the value stored by the stage before; and no run ends
\* with the empty-transcript or the empty-prompt error of those two stages.
C19_StagesGetNonBlankInput ==
  /\ pc = "step2" => /\ NonBlank(locals.transcript)
                     /\ locals.transcript = transcript
  /\ pc = "step3" => /\ NonBlank(locals.prompt)
                     /\ locals.prompt = image_prompt
                     /\ NonBlank(locals.transcript)
  /\ error_message \notin {EmptyPromptMsg, EmptyTranscriptMsg}

\* C19's case: both text-generation calls failed, and generate_image is about
\* to be invoked on the template.
C19_Witness ==
  /\ pc = "step3"
  /\ calls = <<"audio.transcriptions.create", "chat.completions.create",
               "chat.completions.create">>
  /\ last_resp.kind = "raise"
  /\ locals.prompt = ExpectedTemplate(<<"a">>)
  /\ NonBlank(locals.prompt)

\* C20: in every state, between runs and in the middle of one, the results
\* are there as a prefix of the stage order: where there are image bytes there
\* is a prompt, and where there is a prompt there is a transcript.
C20_ResultsArePrefix ==
  /\ image_bytes # None => /\ image_prompt # <<>>
                           /\ NonBlank(image_prompt)
  /\ image_prompt # <<>> => /\ transcript # <<>>
                            /\ NonBlank(transcript)

\* C20's case: in the middle of a run that started over an earlier outcome,
\* the transcript and the prompt are there and the image is not yet.
C20_Witness ==
  /\ pc = "step3"
  /\ stale
  /\ NonBlank(transcript)
  /\ NonBlank(image_prompt)
  /\ image_bytes = None

\* How a run that has ended looks: failed, or succeeded.
EndedFailed == error_message # ""
EndedSucceeded ==
  /\ error_message = ""
  /\ transcript # <<>>
  /\ image_prompt # <<>>
  /\ image_bytes # None

\* C21: a run that has started ends; and a run that has ended has either an
\* error message, or no error message and the transcript, the prompt and the
\* image bytes, never an error message with an image and never neither.
C21_RunEndsFailedOrSucceeded ==
  /\ (pc \in {"step1", "step2", "step3"}) ~> (pc = "done")
  /\ [](pc = "done"
          => /\ EndedFailed \/ EndedSucceeded
             /\ ~(EndedFailed /\ EndedSucceeded)
             /\ ~(error_message # "" /\ image_bytes # None)
             /\ ~(error_message = "" /\ image_bytes = None)
             /\ EndedSucceeded => /\ NonBlank(transcript)
                                  /\ NonBlank(image_prompt))

\* C21's case: a run ended in its third stage, the provider having answered
\* without a payload: an error message, the transcript and the prompt, no image.
C21_Witness ==
  /\ pc = "done"
  /\ Len(invoked) = 3
  /\ last_resp.kind = "ok"
  /\ last_resp.b64_json = None
  /\ EndedFailed
  /\ ~EndedSucceeded
  /\ image_bytes = None

\* The latest call of run_pipeline was made with no uploaded audio.
RunWithoutAudio == inp.fn = "run_pipeline" /\ ~inp.audio

\* C22: run_pipeline called with no audio has ended at once, with the message
\* "Please upload an audio file first.", no stage invoked, no provider call
\* made, and the transcript, the prompt and the image cleared, whatever an
\* earlier run had left there.
C22_NoAudioEndsRunCleared ==
  RunWithoutAudio
    => /\ pc = "done"
       /\ error_message = "Please upload an audio file first."
       /\ invoked = <<>>
       /\ calls = <<>>
       /\ last_resp = NoResp
       /\ returned = NothingReturned
       /\ transcript = <<>>
       /\ image_prompt = <<>>
       /\ image_bytes = None

\* C22's case: a call with no audio, made when an earlier run's outcome was
\* stored.
C22_Witness ==
  /\ RunWithoutAudio
  /\ stale
  /\ pc = "done"
  /\ error_message = NoAudioMsg
  /\ image_bytes = None

====
